---- MODULE Spec2Model ----
(***************************************************************************)
(* Model of ChatCmplStreamHandler.handle_stream                            *)
(* (src/src/agents/models/chatcmpl_stream_handler.py): an async generator  *)
(* that consumes chat-completion chunks and yields response stream events. *)
(*                                                                         *)
(* The generator is modelled statement block by statement block.  pc names *)
(* the block that runs next; an action that yields an event appends it to  *)
(* events and leaves the generator suspended at that yield.  The chunks of *)
(* the input stream are chosen when they are pulled (the handler cannot    *)
(* look ahead), and consumed records the chunks pulled so far.             *)
(*                                                                         *)
(* Optional values (Python None) are sequences of length 0 or 1, except    *)
(* for optional strings, where None is the string None below.              *)
(***************************************************************************)
EXTENDS Integers, Sequences, FiniteSets, TLC

VARIABLES
    pc,                 \* the block of handle_stream that runs next
    suspended,          \* TRUE iff the generator is suspended at a yield
    chunk,              \* the loop variable of `async for chunk in stream`
    consumed,           \* the chunks pulled from the stream so far
    state,              \* StreamingState
    usage,              \* the local `usage`
    sequence_number,    \* SequenceNumber._sequence_number
    function_call_starting_index,
    fc_pos,             \* position of the iterator over state.function_calls.values()
    outputs,            \* the local `outputs`
    events,             \* the events yielded so far, in order
    stream,             \* the input stream: "open", "exhausted" or "raised"
    consumer            \* the consumer of the events: "iterating" or "stopped"

vars == <<pc, suspended, chunk, consumed, state, usage, sequence_number,
          function_call_starting_index, fc_pos, outputs, events, stream,
          consumer>>

(***************************************************************************)
(* Bounds                                                                  *)
(***************************************************************************)
MaxChunks == 2

(***************************************************************************)
(* Values                                                                  *)
(***************************************************************************)
None == "<None>"

FAKE_RESPONSES_ID == "__fake_id__"

\* Python truthiness of an Optional[str]
Truthy(s) == s # None /\ s # ""

\* the `or ""` left out: an absent sub-field joined as it is
OrEmpty_Missing(s) == s

\* `x or ""` for an Optional[str]
OrEmpty(s) == IF Truthy(s) THEN s ELSE ""

\* The `response` argument: the shell the events are built around.
response == [id |-> "resp", output |-> <<>>, usage |-> <<>>]

(***************************************************************************)
(* Input chunks                                                            *)
(***************************************************************************)
CompletionUsage(p, c, t, cd, pd) ==
    [prompt_tokens |-> p, completion_tokens |-> c, total_tokens |-> t,
     completion_tokens_details |-> cd, prompt_tokens_details |-> pd]

\* token counts 10/5/15 without detail objects; 3/2/5 with both detail
\* objects, the cached count unset
Usages ==
    { CompletionUsage(10, 5, 15, <<>>, <<>>),
      CompletionUsage(3, 2, 5, <<[reasoning_tokens |-> <<4>>]>>,
                               <<[cached_tokens |-> <<>>]>>) }

ChoiceDeltaToolCall(i, id, fn) == [index |-> i, id |-> id, function |-> fn]

ChoiceDeltaToolCallFunction(n, a) == [name |-> n, arguments |-> a]

ToolCallLists ==
    { \* the first piece of call 0
      << ChoiceDeltaToolCall(0, "c0", <<ChoiceDeltaToolCallFunction("f", "{")>>) >>,
      \* a continuation of call 0: no id, no name
      << ChoiceDeltaToolCall(0, None, <<ChoiceDeltaToolCallFunction(None, "}")>>) >>,
      \* call 2 seen before call 0, no call 1; call 0 without a function object
      << ChoiceDeltaToolCall(2, "c2", <<ChoiceDeltaToolCallFunction("g", "")>>),
         ChoiceDeltaToolCall(0, "d", <<>>) >> }

\* An attribute the delta object does not have (hasattr false) is modelled
\* as None: the guards of the handler treat the two alike.
ChoiceDelta(c, r, rc, tb, tcs) ==
    [content |-> c, refusal |-> r, reasoning_content |-> rc,
     thinking_blocks |-> tb, tool_calls |-> tcs]

ThinkingBlocks ==
    << [is_dict |-> FALSE, thinking |-> "n"],
       [is_dict |-> TRUE, thinking |-> ""],
       [is_dict |-> TRUE, thinking |-> "y"],
       [is_dict |-> TRUE, thinking |-> "z"] >>

Deltas ==
    { ChoiceDelta(None, None, None, <<>>, <<>>),
      ChoiceDelta("a", None, None, <<>>, <<>>),
      ChoiceDelta("b", None, None, <<>>, <<>>),
      ChoiceDelta("", "r", None, <<>>, <<>>),
      ChoiceDelta("a", "r", None, <<>>, <<>>),
      ChoiceDelta(None, None, "x", <<>>, <<>>),
      ChoiceDelta(None, None, None, ThinkingBlocks, <<>>),
      ChoiceDelta(None, "s", None, <<>>, <<>>),
      ChoiceDelta("a", None, "x", ThinkingBlocks, <<>>) }
    \cup { ChoiceDelta(None, None, None, <<>>, tcs) : tcs \in ToolCallLists }
    \cup { ChoiceDelta("a", "r", None, <<>>, tcs) : tcs \in ToolCallLists }

ChatCompletionChunk(ch, hu, u) == [choices |-> ch, has_usage |-> hu, usage |-> u]

Chunks ==
    \* chunks with a first-choice delta; the usage attribute is there and None
    { ChatCompletionChunk(<<[delta |-> <<d>>]>>, TRUE, <<>>) : d \in Deltas }
    \* a delta and a usage summary on the same chunk
    \cup { ChatCompletionChunk(<<[delta |-> <<ChoiceDelta("b", None, None, <<>>, <<>>)>>]>>,
                               TRUE, <<u>>) : u \in Usages }
    \* no choices, a usage summary
    \cup { ChatCompletionChunk(<<>>, TRUE, <<u>>) : u \in Usages }
    \* no choices, no usage attribute at all
    \cup { ChatCompletionChunk(<<>>, FALSE, <<>>) }
    \* a choice without delta
    \cup { ChatCompletionChunk(<<[delta |-> <<>>]>>, TRUE, <<>>) }

NoChunk == ChatCompletionChunk(<<>>, FALSE, <<>>)

(***************************************************************************)
(* Output items and events                                                 *)
(***************************************************************************)
ResponseOutputText(t) == [type |-> "output_text", text |-> t, annotations |-> <<>>]

ResponseOutputRefusal(r) == [type |-> "refusal", refusal |-> r]

ResponseOutputMessage(c, s) ==
    [id |-> FAKE_RESPONSES_ID, content |-> c, role |-> "assistant",
     type |-> "message", status |-> s]

ResponseFunctionToolCall(cid, a, n) ==
    [id |-> FAKE_RESPONSES_ID, call_id |-> cid, arguments |-> a, name |-> n,
     type |-> "function_call"]

ResponseCreatedEvent(r, seq) ==
    [type |-> "response.created", response |-> r, sequence_number |-> seq]

ThinkingDeltaEvent(d, seq) ==
    [type |-> "thinking.delta", delta |-> d, sequence_number |-> seq]

ResponseOutputItemAddedEvent(it, oi, seq) ==
    [type |-> "response.output_item.added", item |-> it, output_index |-> oi,
     sequence_number |-> seq]

ResponseContentPartAddedEvent(ci, p, seq) ==
    [type |-> "response.content_part.added", content_index |-> ci,
     item_id |-> FAKE_RESPONSES_ID, output_index |-> 0, part |-> p,
     sequence_number |-> seq]

ResponseTextDeltaEvent(ci, d, seq) ==
    [type |-> "response.output_text.delta", content_index |-> ci, delta |-> d,
     item_id |-> FAKE_RESPONSES_ID, output_index |-> 0, sequence_number |-> seq]

ResponseRefusalDeltaEvent(ci, d, seq) ==
    [type |-> "response.refusal.delta", content_index |-> ci, delta |-> d,
     item_id |-> FAKE_RESPONSES_ID, output_index |-> 0, sequence_number |-> seq]

ResponseContentPartDoneEvent(ci, p, seq) ==
    [type |-> "response.content_part.done", content_index |-> ci,
     item_id |-> FAKE_RESPONSES_ID, output_index |-> 0, part |-> p,
     sequence_number |-> seq]

ResponseFunctionCallArgumentsDeltaEvent(d, oi, seq) ==
    [type |-> "response.function_call_arguments.delta", delta |-> d,
     item_id |-> FAKE_RESPONSES_ID, output_index |-> oi, sequence_number |-> seq]

ResponseOutputItemDoneEvent(it, oi, seq) ==
    [type |-> "response.output_item.done", item |-> it, output_index |-> oi,
     sequence_number |-> seq]

ResponseCompletedEvent(r, seq) ==
    [type |-> "response.completed", response |-> r, sequence_number |-> seq]

(***************************************************************************)
(* SequenceNumber                                                          *)
(***************************************************************************)
\* get_and_increment without the increment
GetAndIncrement_NoIncrement(n) == [num |-> n, next |-> n]

\* get_and_increment: the number handed out and the counter afterwards
GetAndIncrement(n) == [num |-> n, next |-> n + 1]

(***************************************************************************)
(* StreamingState                                                          *)
(***************************************************************************)
StreamingState ==
    [started |-> FALSE,
     text_content_index_and_output |-> <<>>,
     refusal_content_index_and_output |-> <<>>,
     function_calls |-> <<>>]

\* the membership test left out: every sub-delta starts a new entry
HasKey_Never(d, k) == FALSE

\* state.function_calls is a dict: a sequence of entries in insertion order.
HasKey(d, k) == \E i \in 1..Len(d) : d[i].key = k

KeyPos(d, k) == CHOOSE i \in 1..Len(d) : d[i].key = k

\* a new key placed by numeric order instead of at the end
DictInsert_Sorted(d, k, v) ==
    LET lo == SelectSeq(d, LAMBDA e : e.key < k)
        hi == SelectSeq(d, LAMBDA e : e.key > k)
    IN  lo \o <<[key |-> k, value |-> v]>> \o hi

\* d[k] = v for a key not in d: the entry goes to the end
DictInsert(d, k, v) == Append(d, [key |-> k, value |-> v])

\* d.values()
DictValues(d) == [i \in 1..Len(d) |-> d[i].value]

(***************************************************************************)
(* The translation loop's decisions                                        *)
(***************************************************************************)
\* the created event sent for every chunk
NotStarted_Always(st) == TRUE

\* `if not state.started`
NotStarted(st) == ~st.started

\* a chunk without usage leaving the captured usage in place
CaptureUsage_Sticky(prev, c) == IF c.has_usage /\ c.usage # <<>> THEN c.usage ELSE prev

\* `usage = chunk.usage if hasattr(chunk, "usage") else None`
CaptureUsage(prev, c) == IF c.has_usage THEN c.usage ELSE <<>>

\* `if not chunk.choices or not chunk.choices[0].delta: continue`
HasDelta(c) == c.choices # <<>> /\ c.choices[1].delta # <<>>

DeltaOf(c) == c.choices[1].delta[1]

\* the first block that is a dict with a truthy 'thinking', from position i on
RECURSIVE FirstThinking(_, _)
FirstThinking(tbs, i) ==
    IF i > Len(tbs) THEN None
    ELSE IF tbs[i].is_dict /\ Truthy(tbs[i].thinking) THEN tbs[i].thinking
    ELSE FirstThinking(tbs, i + 1)

\* thinking_blocks looked at before reasoning_content
ThinkingContent_BlocksFirst(delta) ==
    IF delta.thinking_blocks # <<>> /\ Truthy(FirstThinking(delta.thinking_blocks, 1))
    THEN FirstThinking(delta.thinking_blocks, 1)
    ELSE delta.reasoning_content

ThinkingContent(delta) ==
    IF Truthy(delta.reasoning_content) THEN delta.reasoning_content
    ELSE IF delta.thinking_blocks # <<>> THEN FirstThinking(delta.thinking_blocks, 1)
    ELSE None

\* `+=` of lines 154 and 202 written `=`
Accumulate_Assign(acc, d) == d

\* `part.text += delta.content`, `part.refusal += delta.refusal`
Accumulate(acc, d) == acc \o d

\* the text channel opened again by every text delta
TextUnopened_Always(st) == TRUE

\* `if not state.text_content_index_and_output`
TextUnopened(st) == st.text_content_index_and_output = <<>>

\* the refusal channel opened again by every refusal delta
RefusalUnopened_Always(st) == TRUE

\* `if not state.refusal_content_index_and_output`
RefusalUnopened(st) == st.refusal_content_index_and_output = <<>>

\* the text channel always taking slot 0
TextContentIndex_Zero(st) == 0

\* the content slot a channel takes when it is opened
TextContentIndex(st) == IF st.refusal_content_index_and_output = <<>> THEN 0 ELSE 1

RefusalContentIndex(st) == IF st.text_content_index_and_output = <<>> THEN 0 ELSE 1

\* one tc_delta of delta.tool_calls applied to state.function_calls
ApplyToolCallDelta(fcs, tc) ==
    LET d == IF HasKey(fcs, tc.index) THEN fcs
             ELSE DictInsert(fcs, tc.index, ResponseFunctionToolCall("", "", ""))
        i == KeyPos(d, tc.index)
        old == d[i].value
        fn == tc.function
        new == [old EXCEPT
                  !.arguments = @ \o OrEmpty(IF fn # <<>> THEN fn[1].arguments ELSE ""),
                  !.name = @ \o OrEmpty(IF fn # <<>> THEN fn[1].name ELSE ""),
                  !.call_id = @ \o OrEmpty(tc.id)]
    IN  [d EXCEPT ![i].value = new]

\* `for tc_delta in delta.tool_calls`, from position i on
RECURSIVE ApplyToolCalls(_, _, _)
ApplyToolCalls(fcs, tcs, i) ==
    IF i > Len(tcs) THEN fcs
    ELSE ApplyToolCalls(ApplyToolCallDelta(fcs, tcs[i]), tcs, i + 1)

(***************************************************************************)
(* Finalization's decisions                                                *)
(***************************************************************************)
\* `function_call_starting_index += 1` written `= 1`
StartingIndexAfterPart_Assign(i) == 1

\* `function_call_starting_index += 1` (lines 229, 241)
StartingIndexAfterPart(i) == i + 1

\* the content index tested for truthiness instead of the tuple
TextPartDoneDue_IndexTruthy(st) ==
    st.text_content_index_and_output # <<>> /\ st.text_content_index_and_output[1] # 0

\* `if state.text_content_index_and_output` (line 228)
TextPartDoneDue(st) == st.text_content_index_and_output # <<>>

\* `elif` for `if`: the refusal part closed only when the text part was not
RefusalPartDoneDue_Elif(st) ==
    st.text_content_index_and_output = <<>> /\ st.refusal_content_index_and_output # <<>>

\* `if state.refusal_content_index_and_output` (line 240)
RefusalPartDoneDue(st) == st.refusal_content_index_and_output # <<>>

\* the message assembled whether or not a channel was opened
MessageDue_Always(st) == TRUE

\* `if state.text_content_index_and_output or state.refusal_content_index_and_output`
MessageDue(st) ==
    st.text_content_index_and_output # <<>> \/ st.refusal_content_index_and_output # <<>>

\* assistant_msg.content after the two appends
MessageContent(st) ==
    (IF st.text_content_index_and_output # <<>>
     THEN <<st.text_content_index_and_output[2]>> ELSE <<>>)
    \o (IF st.refusal_content_index_and_output # <<>>
        THEN <<st.refusal_content_index_and_output[2]>> ELSE <<>>)

\* the ResponseUsage built from the captured usage, None when there is none
ResponseUsage(u) ==
    IF u = <<>> THEN <<>>
    ELSE LET cu == u[1]
             ctd == cu.completion_tokens_details
             ptd == cu.prompt_tokens_details
         IN << [input_tokens |-> cu.prompt_tokens,
                output_tokens |-> cu.completion_tokens,
                total_tokens |-> cu.total_tokens,
                output_tokens_details |->
                    [reasoning_tokens |->
                        IF ctd # <<>> /\ ctd[1].reasoning_tokens # <<>>
                                      /\ ctd[1].reasoning_tokens[1] # 0
                        THEN ctd[1].reasoning_tokens[1] ELSE 0],
                input_tokens_details |->
                    [cached_tokens |->
                        IF ptd # <<>> /\ ptd[1].cached_tokens # <<>>
                                      /\ ptd[1].cached_tokens[1] # 0
                        THEN ptd[1].cached_tokens[1] ELSE 0]] >>

\* final_response: a copy of response with output and usage set
FinalResponse(outs, u) ==
    [response EXCEPT !.output = outs, !.usage = ResponseUsage(u)]

(***************************************************************************)
(* The generator                                                           *)
(***************************************************************************)
Init ==
    /\ pc = "for"
    /\ suspended = TRUE
    /\ chunk = NoChunk
    /\ consumed = <<>>
    /\ state = StreamingState
    /\ usage = <<>>
    /\ sequence_number = 0
    /\ function_call_starting_index = 0
    /\ fc_pos = 1
    /\ outputs = <<>>
    /\ events = <<>>
    /\ stream = "open"
    /\ consumer = "iterating"

\* `sequence_number.get_and_increment()` as evaluated in the event's constructor
next_number == GetAndIncrement(sequence_number).num

\* `yield event`, the event built with sequence_number=next_number
Yield(event) ==
    /\ events' = Append(events, event)
    /\ sequence_number' = GetAndIncrement(sequence_number).next
    /\ suspended' = TRUE

\* a block that runs on to the next one without yielding
NoYield ==
    /\ suspended' = FALSE
    /\ UNCHANGED <<events, sequence_number>>

finals == <<function_call_starting_index, fc_pos, outputs>>

ends == <<stream, consumer>>

\* `async for chunk in stream`: the stream hands over its next chunk
NextChunk ==
    /\ pc = "for"
    /\ Len(consumed) < MaxChunks
    /\ \E c \in Chunks :
        /\ chunk' = c
        /\ consumed' = Append(consumed, c)
    /\ pc' = "started"
    /\ NoYield
    /\ UNCHANGED <<ends, state, usage, finals>>

\* `async for chunk in stream`: the stream is exhausted
StreamEnd ==
    /\ pc = "for"
    /\ stream' = "exhausted"
    /\ pc' = "fin_text"
    /\ NoYield
    /\ UNCHANGED <<consumer, chunk, consumed, state, usage, finals>>

\* a finalizer run in a `finally` around the loop
AfterRaise_Finally == "fin_text"

\* where an exception raised by the stream leaves handle_stream: nothing
\* catches it, it propagates to the consumer
AfterRaise == "failed"

\* `async for chunk in stream`: the stream raises
StreamRaise ==
    /\ pc = "for"
    /\ stream' = "raised"
    /\ pc' = AfterRaise
    /\ NoYield
    /\ UNCHANGED <<consumer, chunk, consumed, state, usage, finals>>

\* lines 69-75
Created ==
    /\ pc = "started"
    /\ IF NotStarted(state)
       THEN /\ state' = [state EXCEPT !.started = TRUE]
            /\ Yield(ResponseCreatedEvent(response, next_number))
       ELSE /\ NoYield
            /\ UNCHANGED state
    /\ pc' = "usage"
    /\ UNCHANGED <<ends, chunk, consumed, usage, finals>>

\* lines 77-83
Usage ==
    /\ pc = "usage"
    /\ usage' = CaptureUsage(usage, chunk)
    /\ pc' = IF HasDelta(chunk) THEN "thinking" ELSE "for"
    /\ NoYield
    /\ UNCHANGED <<ends, chunk, consumed, state, finals>>

\* lines 85-103
Thinking ==
    /\ pc = "thinking"
    /\ LET thinking_content == ThinkingContent(DeltaOf(chunk))
       IN  IF Truthy(thinking_content)
           THEN Yield(ThinkingDeltaEvent(thinking_content, next_number))
           ELSE NoYield
    /\ pc' = "text"
    /\ UNCHANGED <<ends, chunk, consumed, state, usage, finals>>

\* lines 106-131
TextOpen ==
    /\ pc = "text"
    /\ IF ~Truthy(DeltaOf(chunk).content)
       THEN /\ pc' = "refusal"
            /\ NoYield
            /\ UNCHANGED state
       ELSE IF TextUnopened(state)
       THEN /\ state' = [state EXCEPT !.text_content_index_and_output =
                            <<TextContentIndex(state), ResponseOutputText("")>>]
            /\ Yield(ResponseOutputItemAddedEvent(
                                      ResponseOutputMessage(<<>>, "in_progress"), 0, next_number))
            /\ pc' = "text_part_added"
       ELSE /\ pc' = "text_delta"
            /\ NoYield
            /\ UNCHANGED state
    /\ UNCHANGED <<ends, chunk, consumed, usage, finals>>

\* lines 132-143
TextPartAdded ==
    /\ pc = "text_part_added"
    /\ Yield(ResponseContentPartAddedEvent(
                              state.text_content_index_and_output[1],
                              ResponseOutputText(""), next_number))
    /\ pc' = "text_delta"
    /\ UNCHANGED <<ends, chunk, consumed, state, usage, finals>>

\* lines 144-152
TextDelta ==
    /\ pc = "text_delta"
    /\ Yield(ResponseTextDeltaEvent(
                              state.text_content_index_and_output[1],
                              DeltaOf(chunk).content, next_number))
    /\ pc' = "text_accumulate"
    /\ UNCHANGED <<ends, chunk, consumed, state, usage, finals>>

\* lines 153-154
TextAccumulate ==
    /\ pc = "text_accumulate"
    /\ state' = [state EXCEPT !.text_content_index_and_output[2].text =
                                  Accumulate(@, DeltaOf(chunk).content)]
    /\ pc' = "refusal"
    /\ NoYield
    /\ UNCHANGED <<ends, chunk, consumed, usage, finals>>

\* lines 158-179
RefusalOpen ==
    /\ pc = "refusal"
    /\ IF ~Truthy(DeltaOf(chunk).refusal)
       THEN /\ pc' = "tool_calls"
            /\ NoYield
            /\ UNCHANGED state
       ELSE IF RefusalUnopened(state)
       THEN /\ state' = [state EXCEPT !.refusal_content_index_and_output =
                            <<RefusalContentIndex(state), ResponseOutputRefusal("")>>]
            /\ Yield(ResponseOutputItemAddedEvent(
                                      ResponseOutputMessage(<<>>, "in_progress"), 0, next_number))
            /\ pc' = "refusal_part_added"
       ELSE /\ pc' = "refusal_delta"
            /\ NoYield
            /\ UNCHANGED state
    /\ UNCHANGED <<ends, chunk, consumed, usage, finals>>

\* lines 180-191
RefusalPartAdded ==
    /\ pc = "refusal_part_added"
    /\ Yield(ResponseContentPartAddedEvent(
                              state.refusal_content_index_and_output[1],
                              ResponseOutputText(""), next_number))
    /\ pc' = "refusal_delta"
    /\ UNCHANGED <<ends, chunk, consumed, state, usage, finals>>

\* lines 192-200
RefusalDelta ==
    /\ pc = "refusal_delta"
    /\ Yield(ResponseRefusalDeltaEvent(
                              state.refusal_content_index_and_output[1],
                              DeltaOf(chunk).refusal, next_number))
    /\ pc' = "refusal_accumulate"
    /\ UNCHANGED <<ends, chunk, consumed, state, usage, finals>>

\* lines 201-202
RefusalAccumulate ==
    /\ pc = "refusal_accumulate"
    /\ state' = [state EXCEPT !.refusal_content_index_and_output[2].refusal =
                                  Accumulate(@, DeltaOf(chunk).refusal)]
    /\ pc' = "tool_calls"
    /\ NoYield
    /\ UNCHANGED <<ends, chunk, consumed, usage, finals>>

\* lines 207-225
ToolCalls ==
    /\ pc = "tool_calls"
    /\ state' = [state EXCEPT !.function_calls =
                    ApplyToolCalls(@, DeltaOf(chunk).tool_calls, 1)]
    /\ pc' = "for"
    /\ NoYield
    /\ UNCHANGED <<ends, chunk, consumed, usage, finals>>

loop == <<chunk, consumed, state, usage>>

\* lines 227-238
FinText ==
    /\ pc = "fin_text"
    /\ IF TextPartDoneDue(state)
       THEN /\ function_call_starting_index' = StartingIndexAfterPart(0)
            /\ Yield(ResponseContentPartDoneEvent(
                                      state.text_content_index_and_output[1],
                                      state.text_content_index_and_output[2], next_number))
       ELSE /\ function_call_starting_index' = 0
            /\ NoYield
    /\ pc' = "fin_refusal"
    /\ UNCHANGED <<ends, loop, fc_pos, outputs>>

\* lines 240-250
FinRefusal ==
    /\ pc = "fin_refusal"
    /\ IF RefusalPartDoneDue(state)
       THEN /\ function_call_starting_index' = StartingIndexAfterPart(function_call_starting_index)
            /\ Yield(ResponseContentPartDoneEvent(
                                      state.refusal_content_index_and_output[1],
                                      state.refusal_content_index_and_output[2], next_number))
       ELSE /\ NoYield
            /\ UNCHANGED function_call_starting_index
    /\ pc' = "fin_calls"
    /\ UNCHANGED <<ends, loop, fc_pos, outputs>>

\* the function call the loop of lines 253-287 is at
function_call == DictValues(state.function_calls)[fc_pos]

\* lines 253-266: the next function call, if there is one, and its item-added
FinCallAdded ==
    /\ pc = "fin_calls"
    /\ IF fc_pos <= Len(state.function_calls)
       THEN /\ Yield(ResponseOutputItemAddedEvent(
                         ResponseFunctionToolCall(function_call.call_id,
                                                  function_call.arguments,
                                                  function_call.name),
                         function_call_starting_index, next_number))
            /\ pc' = "fin_call_args"
       ELSE /\ NoYield
            /\ pc' = "fin_message"
    /\ UNCHANGED <<ends, loop, finals>>

\* lines 267-274
FinCallArgs ==
    /\ pc = "fin_call_args"
    /\ Yield(ResponseFunctionCallArgumentsDeltaEvent(
                              function_call.arguments,
                              function_call_starting_index, next_number))
    /\ pc' = "fin_call_done"
    /\ UNCHANGED <<ends, loop, finals>>

\* lines 275-287
FinCallDone ==
    /\ pc = "fin_call_done"
    /\ Yield(ResponseOutputItemDoneEvent(
                 ResponseFunctionToolCall(function_call.call_id,
                                          function_call.arguments,
                                          function_call.name),
                 function_call_starting_index, next_number))
    /\ fc_pos' = fc_pos + 1
    /\ pc' = "fin_calls"
    /\ UNCHANGED <<ends, loop, function_call_starting_index, outputs>>

\* lines 290-311
FinMessage ==
    /\ pc = "fin_message"
    /\ IF MessageDue(state)
       THEN LET assistant_msg == ResponseOutputMessage(MessageContent(state), "completed")
            IN  /\ outputs' = <<assistant_msg>>
                /\ Yield(ResponseOutputItemDoneEvent(assistant_msg, 0, next_number))
       ELSE /\ outputs' = <<>>
            /\ NoYield
    /\ pc' = "fin_completed"
    /\ UNCHANGED <<ends, loop, function_call_starting_index, fc_pos>>

\* lines 313-343
FinCompleted ==
    /\ pc = "fin_completed"
    /\ outputs' = outputs \o DictValues(state.function_calls)
    /\ Yield(ResponseCompletedEvent(FinalResponse(outputs', usage), next_number))
    /\ pc' = "return"
    /\ UNCHANGED <<ends, loop, function_call_starting_index, fc_pos>>

\* the consumer asks for more after the completed event: the generator returns
Return ==
    /\ pc = "return"
    /\ pc' = "done"
    /\ NoYield
    /\ UNCHANGED <<ends, loop, finals>>

\* a finalizer run when the generator is closed
AfterClose_Finally == "fin_text"

\* where closing leaves the generator: no `try` surrounds the yields, so no
\* statement of handle_stream runs any more
AfterClose == "closed"

\* the consumer stops iterating while the generator waits (before its first
\* step, or at a yield): the generator is closed where it stands
Close ==
    /\ suspended
    /\ consumer = "iterating"
    /\ pc \notin {"done", "failed", "closed"}
    /\ consumer' = "stopped"
    /\ pc' = AfterClose
    /\ UNCHANGED <<stream, suspended, loop, finals, events, sequence_number>>

Next ==
    \/ NextChunk \/ StreamEnd \/ StreamRaise
    \/ Created \/ Usage \/ Thinking
    \/ TextOpen \/ TextPartAdded \/ TextDelta \/ TextAccumulate
    \/ RefusalOpen \/ RefusalPartAdded \/ RefusalDelta \/ RefusalAccumulate
    \/ ToolCalls
    \/ FinText \/ FinRefusal \/ FinCallAdded \/ FinCallArgs \/ FinCallDone
    \/ FinMessage \/ FinCompleted \/ Return
    \/ Close

Spec == Init /\ [][Next]_vars

(***************************************************************************)
(* Vocabulary of the properties: what the consumed chunks held, read from  *)
(* the input alone, and the kinds of the events yielded.                   *)
(***************************************************************************)
LoopPcs ==
    {"for", "started", "usage", "thinking", "text", "text_part_added",
     "text_delta", "text_accumulate", "refusal", "refusal_part_added",
     "refusal_delta", "refusal_accumulate", "tool_calls"}

Done == pc = "done"

LastEvent == events[Len(events)]

Positions(P(_)) == {i \in 1..Len(events) : P(events[i])}

Count(P(_)) == Cardinality(Positions(P))

IsCreated(e) == e.type = "response.created"

IsCompleted(e) == e.type = "response.completed"

IsThinkingDelta(e) == e.type = "thinking.delta"

IsTextDelta(e) == e.type = "response.output_text.delta"

IsRefusalDelta(e) == e.type = "response.refusal.delta"

IsPartAdded(e) == e.type = "response.content_part.added"

IsPartDone(e) == e.type = "response.content_part.done"

IsTextPartDone(e) == IsPartDone(e) /\ e.part.type = "output_text"

IsRefusalPartDone(e) == IsPartDone(e) /\ e.part.type = "refusal"

IsItemAdded(e) == e.type = "response.output_item.added"

IsItemDone(e) == e.type = "response.output_item.done"

IsMessageItemAdded(e) == IsItemAdded(e) /\ e.item.type = "message"

IsMessageItemDone(e) == IsItemDone(e) /\ e.item.type = "message"

IsCallItemAdded(e) == IsItemAdded(e) /\ e.item.type = "function_call"

IsCallArgs(e) == e.type = "response.function_call_arguments.delta"

IsCallItemDone(e) == IsItemDone(e) /\ e.item.type = "function_call"

IsToolCallEvent(e) == IsCallItemAdded(e) \/ IsCallArgs(e) \/ IsCallItemDone(e)

\* an event the translation loop yields
IsLoopEvent(e) ==
    \/ IsCreated(e) \/ IsThinkingDelta(e) \/ IsTextDelta(e) \/ IsRefusalDelta(e)
    \/ IsPartAdded(e) \/ IsMessageItemAdded(e)

\* the i-th consumed chunk carries text / refusal / reasoning / tool calls
ChunkHasText(c) == HasDelta(c) /\ DeltaOf(c).content \notin {None, ""}

ChunkHasRefusal(c) == HasDelta(c) /\ DeltaOf(c).refusal \notin {None, ""}

ChunkHasReasoning(c) ==
    /\ HasDelta(c)
    /\ \/ DeltaOf(c).reasoning_content \notin {None, ""}
       \/ \E i \in 1..Len(DeltaOf(c).thinking_blocks) :
             /\ DeltaOf(c).thinking_blocks[i].is_dict
             /\ DeltaOf(c).thinking_blocks[i].thinking \notin {None, ""}

ChunkHasToolCalls(c) == HasDelta(c) /\ DeltaOf(c).tool_calls # <<>>

ChunkHasUsage(c) == c.has_usage /\ c.usage # <<>>

TextSeen == \E i \in 1..Len(consumed) : ChunkHasText(consumed[i])

RefusalSeen == \E i \in 1..Len(consumed) : ChunkHasRefusal(consumed[i])

\* all tool-call sub-deltas of the chunks i.. of cs, in arrival order
RECURSIVE SubDeltas(_, _)
SubDeltas(cs, i) ==
    IF i > Len(cs) THEN <<>>
    ELSE (IF HasDelta(cs[i]) THEN DeltaOf(cs[i]).tool_calls ELSE <<>>)
         \o SubDeltas(cs, i + 1)

\* the distinct indices of the sub-deltas sds, in order of first appearance
RECURSIVE FirstSeen(_, _)
FirstSeen(sds, n) ==
    IF n = 0 THEN <<>>
    ELSE LET before == FirstSeen(sds, n - 1)
         IN  IF \E j \in 1..Len(before) : before[j] = sds[n].index
             THEN before
             ELSE Append(before, sds[n].index)

CallOrder == LET sds == SubDeltas(consumed, 1) IN FirstSeen(sds, Len(sds))

Piece(s) == IF s \in {None, ""} THEN "" ELSE s

\* the pieces of one field of the sub-deltas for index k, joined in arrival order
RECURSIVE Joined(_, _, _, _)
Joined(sds, k, Field(_), n) ==
    IF n = 0 THEN ""
    ELSE Joined(sds, k, Field, n - 1)
         \o (IF sds[n].index = k THEN Piece(Field(sds[n])) ELSE "")

IdField(tc) == tc.id

NameField(tc) == IF tc.function = <<>> THEN None ELSE tc.function[1].name

ArgumentsField(tc) == IF tc.function = <<>> THEN None ELSE tc.function[1].arguments

\* the tool-call item the sub-deltas for index k add up to
ExpectedCall(k) ==
    LET sds == SubDeltas(consumed, 1)
    IN  [id |-> FAKE_RESPONSES_ID, type |-> "function_call",
         call_id |-> Joined(sds, k, IdField, Len(sds)),
         name |-> Joined(sds, k, NameField, Len(sds)),
         arguments |-> Joined(sds, k, ArgumentsField, Len(sds))]

(***************************************************************************)
(* C1                                                                      *)
(***************************************************************************)
\* C1: in every state, also after the consumer has stopped and through
\* finalization, the i-th event yielded carries sequence number i-1.
C1_SequenceNumbers ==
    \A i \in 1..Len(events) : events[i].sequence_number = i - 1

\* a stream with text and a tool call, consumed to its end
C1_Witness ==
    /\ Done
    /\ Count(IsTextDelta) >= 1
    /\ Count(IsToolCallEvent) >= 3
    /\ Len(events) >= 9

(***************************************************************************)
(* C2                                                                      *)
(***************************************************************************)
\* C2 as stated: whenever the stream has been consumed to its normal end,
\* exactly one created event has been yielded and it is the first event,
\* with sequence number 0.
C2_Original ==
    Done => /\ Count(IsCreated) = 1
            /\ IsCreated(events[1])
            /\ events[1].sequence_number = 0

\* C2 amended: for a non-empty stream consumed to its normal end exactly one
\* created event is yielded and it is the first event, with sequence number
\* 0; for the empty stream no created event is yielded.
C2_CreatedOnceFirst ==
    Done => IF consumed = <<>>
            THEN Count(IsCreated) = 0
            ELSE /\ Count(IsCreated) = 1
                 /\ IsCreated(events[1])
                 /\ events[1].sequence_number = 0

\* two chunks consumed to the end, the second of them yielding events too
C2_Witness ==
    /\ Done
    /\ Len(consumed) = 2
    /\ ChunkHasText(consumed[2])
    /\ IsCreated(events[1])

(***************************************************************************)
(* C3                                                                      *)
(***************************************************************************)
\* C3: when the stream has been consumed to its normal end, exactly one
\* completed event has been yielded, it is the last event, and its response's
\* output is the assistant message (iff some chunk carried text or refusal)
\* followed by one tool-call item per distinct tool-call index, in order of
\* first appearance.
C3_CompletedOutput ==
    Done =>
        /\ Count(IsCompleted) = 1
        /\ IsCompleted(LastEvent)
        /\ LET out == LastEvent.response.output
               k == IF TextSeen \/ RefusalSeen THEN 1 ELSE 0
           IN  /\ Len(out) = k + Len(CallOrder)
               /\ k = 1 => out[1].type = "message"
               /\ \A j \in 1..Len(CallOrder) : out[k + j] = ExpectedCall(CallOrder[j])

\* a message and two tool calls whose first-seen order is not the numeric one
C3_Witness ==
    /\ Done
    /\ TextSeen
    /\ CallOrder = <<2, 0>>
    /\ Len(LastEvent.response.output) = 3

(***************************************************************************)
(* C4                                                                      *)
(***************************************************************************)
FirstPosition(P(_)) ==
    IF Positions(P) = {} THEN 0
    ELSE CHOOSE i \in Positions(P) : \A j \in Positions(P) : i <= j

\* the text channel was opened, and before the refusal channel
TextOpenedFirst ==
    /\ FirstPosition(IsTextDelta) > 0
    /\ \/ FirstPosition(IsRefusalDelta) = 0
       \/ FirstPosition(IsTextDelta) < FirstPosition(IsRefusalDelta)

RefusalOpenedFirst ==
    /\ FirstPosition(IsRefusalDelta) > 0
    /\ \/ FirstPosition(IsTextDelta) = 0
       \/ FirstPosition(IsRefusalDelta) < FirstPosition(IsTextDelta)

IsTextEvent(e) == IsTextDelta(e) \/ IsTextPartDone(e)

IsRefusalEvent(e) == IsRefusalDelta(e) \/ IsRefusalPartDone(e)

C4_SlotsOfEvents ==
    /\ TextOpenedFirst =>
          /\ \A i \in Positions(IsTextEvent) : events[i].content_index = 0
          /\ \A i \in Positions(IsRefusalEvent) : events[i].content_index = 1
    /\ RefusalOpenedFirst =>
          /\ \A i \in Positions(IsRefusalEvent) : events[i].content_index = 0
          /\ \A i \in Positions(IsTextEvent) : events[i].content_index = 1
    /\ (state.text_content_index_and_output # <<>>
           /\ state.refusal_content_index_and_output # <<>>)
       => state.text_content_index_and_output[1]
              # state.refusal_content_index_and_output[1]

C4_SlotsKept ==
    /\ state.text_content_index_and_output # <<>>
       => /\ state'.text_content_index_and_output # <<>>
          /\ state'.text_content_index_and_output[1]
                = state.text_content_index_and_output[1]
    /\ state.refusal_content_index_and_output # <<>>
       => /\ state'.refusal_content_index_and_output # <<>>
          /\ state'.refusal_content_index_and_output[1]
                = state.refusal_content_index_and_output[1]

\* C4: the channel opened first has content index 0 on all its events and
\* the other channel, if opened, 1; two opened channels never hold the same
\* slot, and a slot once assigned is never changed.
C4_ContentSlots == [](C4_SlotsOfEvents) /\ [][C4_SlotsKept]_vars

\* the refusal channel opened first, the text channel second, both closed
C4_Witness ==
    /\ Done
    /\ RefusalOpenedFirst
    /\ Count(IsTextPartDone) = 1
    /\ Count(IsRefusalPartDone) = 1

(***************************************************************************)
(* C5                                                                      *)
(***************************************************************************)
\* the content index the stream gave the channel a part belongs to
SlotOfPart(p) ==
    IF p.type = "output_text"
    THEN events[FirstPosition(IsTextPartDone)].content_index
    ELSE events[FirstPosition(IsRefusalPartDone)].content_index

InSlotOrder(content) == \A j \in 1..Len(content) : SlotOfPart(content[j]) = j - 1

\* C5: when the stream has been consumed to its end and a channel was opened,
\* exactly one message item-done has been yielded, at output index 0, and
\* its item, like the message of the completed response, lists its content
\* parts in slot order: the part with slot 0 first, the part with slot 1
\* second.
C5_MessageInSlotOrder ==
    (Done /\ (TextSeen \/ RefusalSeen)) =>
        /\ Count(IsMessageItemDone) = 1
        /\ LET e == events[FirstPosition(IsMessageItemDone)]
           IN  /\ e.output_index = 0
               /\ InSlotOrder(e.item.content)
               /\ LastEvent.response.output[1] = e.item

(***************************************************************************)
(* C6                                                                      *)
(***************************************************************************)
\* C6: when the stream has been consumed to its end, the output indices of
\* the tool-call events start at 1 if a message channel (text, refusal or
\* both) was opened and at 0 if none was: the first tool-call event carries
\* that index and no tool-call event a smaller one.
C6_ToolCallIndexBase ==
    (Done /\ Count(IsToolCallEvent) > 0) =>
        LET base == IF TextSeen \/ RefusalSeen THEN 1 ELSE 0
        IN  /\ events[FirstPosition(IsToolCallEvent)].output_index = base
            /\ \A i \in Positions(IsToolCallEvent) : events[i].output_index >= base

(***************************************************************************)
(* C7                                                                      *)
(***************************************************************************)
ToolCallEvents == SelectSeq(events, IsToolCallEvent)

\* no event of the translation loop follows the event at position i
NoLoopEventAfter(i) == \A j \in (i + 1)..Len(events) : ~IsLoopEvent(events[j])

\* C7: while chunks are being consumed no tool-call event has been yielded,
\* and no event of the translation loop ever follows one; when the stream
\* has been consumed to its end the tool-call events are exactly one triple
\* item-added, arguments-delta, item-done per distinct tool-call index, the
\* triples in order of first appearance of their index.
C7_ToolCallsAtFinalization ==
    /\ pc \in LoopPcs => Count(IsToolCallEvent) = 0
    /\ \A i \in Positions(IsToolCallEvent) : NoLoopEventAfter(i)
    /\ Done =>
        /\ Len(ToolCallEvents) = 3 * Len(CallOrder)
        /\ \A j \in 1..Len(CallOrder) :
              LET call == ExpectedCall(CallOrder[j])
              IN  /\ IsCallItemAdded(ToolCallEvents[3 * j - 2])
                  /\ ToolCallEvents[3 * j - 2].item = call
                  /\ IsCallArgs(ToolCallEvents[3 * j - 1])
                  /\ ToolCallEvents[3 * j - 1].delta = call.arguments
                  /\ IsCallItemDone(ToolCallEvents[3 * j])
                  /\ ToolCallEvents[3 * j].item = call

\* index 0 referenced by two chunks and index 2 seen first: two triples
C7_Witness ==
    /\ Done
    /\ Len(consumed) = 2
    /\ ChunkHasToolCalls(consumed[1])
    /\ ChunkHasToolCalls(consumed[2])
    /\ CallOrder = <<2, 0>>
    /\ Len(ToolCallEvents) = 6

(***************************************************************************)
(* C8                                                                      *)
(***************************************************************************)
\* C8: while chunks are being consumed no content-part-done has been
\* yielded, and no event of the translation loop ever follows one; when the
\* stream has been consumed to its end, the text channel has exactly one
\* content-part-done if some chunk carried text and none otherwise, and
\* likewise the refusal channel.
C8_PartDoneAtFinalization ==
    /\ pc \in LoopPcs => Count(IsPartDone) = 0
    /\ \A i \in Positions(IsPartDone) : NoLoopEventAfter(i)
    /\ Done =>
        /\ Count(IsTextPartDone) = (IF TextSeen THEN 1 ELSE 0)
        /\ Count(IsRefusalPartDone) = (IF RefusalSeen THEN 1 ELSE 0)

\* both channels opened by different chunks and both closed
C8_Witness ==
    /\ Done
    /\ Len(consumed) = 2
    /\ ChunkHasText(consumed[1]) /\ ~ChunkHasRefusal(consumed[1])
    /\ ChunkHasRefusal(consumed[2])
    /\ Count(IsPartDone) = 2

(***************************************************************************)
(* C9                                                                      *)
(***************************************************************************)
Blank(c) ==
    ~ChunkHasText(c) /\ ~ChunkHasRefusal(c) /\ ~ChunkHasToolCalls(c)
        /\ ~ChunkHasReasoning(c)

AllBlank == \A i \in 1..Len(consumed) : Blank(consumed[i])

EventTypes == [i \in 1..Len(events) |-> events[i].type]

\* C9 as stated: a stream of zero or more chunks without text, refusal, tool
\* calls and reasoning, consumed to its end, yields exactly created then
\* completed, the completed response having an empty output.
C9_Original ==
    (Done /\ AllBlank) =>
        /\ EventTypes = <<"response.created", "response.completed">>
        /\ LastEvent.response.output = <<>>

\* C9 amended: a stream of one or more chunks without text, refusal, tool
\* calls and reasoning, consumed to its end, yields exactly created then
\* completed; the stream of zero chunks yields completed alone; in both
\* cases the completed response has an empty output.
C9_BlankStream ==
    (Done /\ AllBlank) =>
        /\ EventTypes = IF consumed = <<>>
                        THEN <<"response.completed">>
                        ELSE <<"response.created", "response.completed">>
        /\ LastEvent.response.output = <<>>

\* two blank chunks, one of them with a delta object
C9_Witness ==
    /\ Done
    /\ Len(consumed) = 2
    /\ AllBlank
    /\ HasDelta(consumed[1])
    /\ Len(events) = 2

(***************************************************************************)
(* C10                                                                     *)
(***************************************************************************)
CompletedUsage == LastEvent.response.usage

\* C10 as stated: when the stream has been consumed to its end, the completed
\* response carries a usage block if and only if some chunk of the stream
\* carried a usage summary.
C10_Original ==
    Done => (CompletedUsage # <<>>
                <=> \E i \in 1..Len(consumed) : ChunkHasUsage(consumed[i]))

\* C10 amended: when the stream has been consumed to its end, the completed
\* response carries a usage block, with the token counts of that summary, if
\* and only if the last chunk of the stream carried a usage summary; a
\* summary on an earlier chunk is dropped.
C10_UsageOfLastChunk ==
    Done =>
        IF consumed # <<>> /\ ChunkHasUsage(consumed[Len(consumed)])
        THEN LET u == consumed[Len(consumed)].usage[1]
             IN  /\ CompletedUsage # <<>>
                 /\ CompletedUsage[1].input_tokens = u.prompt_tokens
                 /\ CompletedUsage[1].output_tokens = u.completion_tokens
                 /\ CompletedUsage[1].total_tokens = u.total_tokens
        ELSE CompletedUsage = <<>>

\* a usage summary on the first chunk, a second chunk without one
C10_Witness ==
    /\ Done
    /\ Len(consumed) = 2
    /\ ChunkHasUsage(consumed[1])
    /\ ~ChunkHasUsage(consumed[2])
    /\ CompletedUsage = <<>>

(***************************************************************************)
(* The events a sequence of chunks is due, read from the input alone       *)
(***************************************************************************)
Kind(e) ==
    CASE IsCreated(e) -> "created"
      [] IsThinkingDelta(e) -> "thinking"
      [] IsMessageItemAdded(e) -> "message_added"
      [] IsPartAdded(e) -> "part_added"
      [] IsTextDelta(e) -> "text_delta"
      [] IsRefusalDelta(e) -> "refusal_delta"
      [] IsTextPartDone(e) -> "text_part_done"
      [] IsRefusalPartDone(e) -> "refusal_part_done"
      [] IsCallItemAdded(e) -> "call_added"
      [] IsCallArgs(e) -> "call_arguments"
      [] IsCallItemDone(e) -> "call_done"
      [] IsMessageItemDone(e) -> "message_done"
      [] IsCompleted(e) -> "completed"

Kinds == [i \in 1..Len(events) |-> Kind(events[i])]

TextBefore(cs, i) == \E j \in 1..(i - 1) : ChunkHasText(cs[j])

RefusalBefore(cs, i) == \E j \in 1..(i - 1) : ChunkHasRefusal(cs[j])

\* the kinds of the events the i-th chunk of cs is due in the translation loop
ChunkKinds(cs, i) ==
    (IF i = 1 THEN <<"created">> ELSE <<>>)
    \o (IF ChunkHasReasoning(cs[i]) THEN <<"thinking">> ELSE <<>>)
    \o (IF ~ChunkHasText(cs[i]) THEN <<>>
        ELSE (IF TextBefore(cs, i) THEN <<>> ELSE <<"message_added", "part_added">>)
             \o <<"text_delta">>)
    \o (IF ~ChunkHasRefusal(cs[i]) THEN <<>>
        ELSE (IF RefusalBefore(cs, i) THEN <<>> ELSE <<"message_added", "part_added">>)
             \o <<"refusal_delta">>)

\* the kinds of the events the first n chunks of cs are due
RECURSIVE LoopKinds(_, _)
LoopKinds(cs, n) ==
    IF n = 0 THEN <<>> ELSE LoopKinds(cs, n - 1) \o ChunkKinds(cs, n)

(***************************************************************************)
(* C11                                                                     *)
(***************************************************************************)
\* C11: once the input stream has raised, handle_stream is left with the
\* failure and the events yielded are, then and ever after, exactly the
\* events of the translation loop for the chunks consumed before the
\* failure: no content-part-done, no tool-call event, no message item-done
\* and no completed event.
C11_NoFinalizerAfterFailure ==
    stream = "raised" =>
        /\ pc = "failed"
        /\ Kinds = LoopKinds(consumed, Len(consumed))
        /\ Count(IsPartDone) = 0
        /\ Count(IsToolCallEvent) = 0
        /\ Count(IsMessageItemDone) = 0
        /\ Count(IsCompleted) = 0

\* the stream fails after two chunks that opened a channel and left a tool
\* call accumulated
C11_Witness ==
    /\ stream = "raised"
    /\ pc = "failed"
    /\ Len(consumed) = 2
    /\ TextSeen
    /\ state.function_calls # <<>>
    /\ Count(IsTextDelta) >= 1

(***************************************************************************)
(* C12                                                                     *)
(***************************************************************************)
\* once the consumer has stopped nothing is yielded, consumed or accumulated
C12_NothingAfterStop ==
    consumer = "stopped" =>
        /\ pc' = "closed"
        /\ UNCHANGED <<events, consumed, state, usage>>

\* a chunk is pulled only when the events of all chunks pulled before have
\* been yielded
C12_PullWhenDrained ==
    consumed' # consumed => Kinds = LoopKinds(consumed, Len(consumed))

\* C12: after the consumer has stopped iterating (at any yield, or before the
\* first event) no event is yielded any more, so no completed event if none
\* had been yielded, no further chunk is consumed and the accumulation state
\* and the captured usage stay as they are; and a chunk is pulled from the
\* stream only when every event of the chunks pulled before has been yielded.
C12_EarlyAbandonment ==
    /\ [][C12_NothingAfterStop]_vars
    /\ [][C12_PullWhenDrained]_vars
    /\ [](consumer = "stopped" => pc = "closed")

\* the consumer stops after the first two events of a chunk that is due more
C12_Witness ==
    /\ consumer = "stopped"
    /\ Len(events) = 2
    /\ pc = "closed"
    /\ Len(consumed) = 1
    /\ Len(ChunkKinds(consumed, 1)) > 2
    /\ Count(IsCompleted) = 0

(***************************************************************************)
(* C13                                                                     *)
(***************************************************************************)
\* the deltas of the events among the first n that satisfy P, joined in order
RECURSIVE JoinedDeltas(_, _)
JoinedDeltas(P(_), n) ==
    IF n = 0 THEN ""
    ELSE JoinedDeltas(P, n - 1) \o (IF P(events[n]) THEN events[n].delta ELSE "")

MessageDoneEvent == events[FirstPosition(IsMessageItemDone)]

HasTextPart(content, t) ==
    \E j \in 1..Len(content) : content[j].type = "output_text" /\ content[j].text = t

HasRefusalPart(content, r) ==
    \E j \in 1..Len(content) : content[j].type = "refusal" /\ content[j].refusal = r

TextOnly(c) ==
    ChunkHasText(c) /\ ~ChunkHasRefusal(c) /\ ~ChunkHasReasoning(c)
        /\ ~ChunkHasToolCalls(c)

\* C13: when the stream has been consumed to its end, the text of the text
\* channel's content-part-done, of the message item-done and of the completed
\* response is the deltas of the text-delta events joined in emission order,
\* and likewise the refusal with the refusal-delta events; two chunks with
\* text alone give created, item-added, content-part-added, text-delta,
\* text-delta, content-part-done, item-done, completed.
C13_AccumulatedText ==
    Done =>
        /\ TextSeen =>
              LET t == JoinedDeltas(IsTextDelta, Len(events))
              IN  /\ events[FirstPosition(IsTextPartDone)].part.text = t
                  /\ HasTextPart(MessageDoneEvent.item.content, t)
                  /\ HasTextPart(LastEvent.response.output[1].content, t)
        /\ RefusalSeen =>
              LET r == JoinedDeltas(IsRefusalDelta, Len(events))
              IN  /\ events[FirstPosition(IsRefusalPartDone)].part.refusal = r
                  /\ HasRefusalPart(MessageDoneEvent.item.content, r)
                  /\ HasRefusalPart(LastEvent.response.output[1].content, r)
        /\ (Len(consumed) = 2 /\ TextOnly(consumed[1]) /\ TextOnly(consumed[2])) =>
              Kinds = <<"created", "message_added", "part_added", "text_delta",
                        "text_delta", "text_part_done", "message_done", "completed">>

\* text deltas "a" then "b"
C13_Witness ==
    /\ Done
    /\ Count(IsTextDelta) = 2
    /\ JoinedDeltas(IsTextDelta, Len(events)) = "ab"
    /\ events[FirstPosition(IsTextPartDone)].part.text = "ab"

(***************************************************************************)
(* C14                                                                     *)
(***************************************************************************)
\* the states in which every consumed chunk has been translated in full
Translated ==
    pc \in {"for", "failed", "fin_text", "fin_refusal", "fin_calls", "fin_call_args",
            "fin_call_done", "fin_message", "fin_completed", "return", "done"}

Keys(d) == [i \in 1..Len(d) |-> d[i].key]

C14_Accumulators ==
    /\ Translated =>
          /\ Keys(state.function_calls) = CallOrder
          /\ \A i \in 1..Len(CallOrder) :
                state.function_calls[i].value = ExpectedCall(CallOrder[i])
    /\ Done =>
          LET k == Len(LastEvent.response.output) - Len(CallOrder)
          IN  \A j \in 1..Len(CallOrder) :
                 LET call == ExpectedCall(CallOrder[j])
                     added == ToolCallEvents[3 * j - 2].item
                     done == ToolCallEvents[3 * j].item
                     item == LastEvent.response.output[k + j]
                 IN  /\ added.name = call.name /\ added.arguments = call.arguments
                        /\ added.call_id = call.call_id
                     /\ ToolCallEvents[3 * j - 1].delta = call.arguments
                     /\ done.name = call.name /\ done.arguments = call.arguments
                        /\ done.call_id = call.call_id
                     /\ item.name = call.name /\ item.arguments = call.arguments
                        /\ item.call_id = call.call_id

\* the sub-deltas of the chunk in hand refer to index k
Referenced(k) ==
    /\ pc = "tool_calls"
    /\ \E j \in 1..Len(DeltaOf(chunk).tool_calls) : DeltaOf(chunk).tool_calls[j].index = k

\* an accumulator stays where it is, and changes only by sub-deltas for its index
C14_OthersUntouched ==
    \A i \in 1..Len(state.function_calls) :
        /\ Len(state'.function_calls) >= i
        /\ state'.function_calls[i].key = state.function_calls[i].key
        /\ ~Referenced(state.function_calls[i].key)
           => state'.function_calls[i] = state.function_calls[i]

\* C14: whenever the consumed chunks have been translated, the accumulator of
\* every tool-call index holds the name, arguments and call-id pieces of the
\* sub-deltas for that index joined in arrival order, an absent piece counting
\* as the empty string; the finalization events of the call and its item in
\* the completed response carry these strings; and no step changes the
\* accumulator of an index its sub-deltas do not refer to.
C14_ToolCallStrings == [](C14_Accumulators) /\ [][C14_OthersUntouched]_vars

\* call 0 fed by two chunks, call 2 arriving in between, no call 1
C14_Witness ==
    /\ Done
    /\ CallOrder = <<0, 2>>
    /\ ToolCallEvents[1].item.call_id = "c0d"
    /\ ToolCallEvents[1].item.name = "f"
    /\ ToolCallEvents[4].item.call_id = "c2"

(***************************************************************************)
(* C15                                                                     *)
(***************************************************************************)
\* the content-part-added of the channel whose events carry content index ci
\* is at position i
OpensChannel(i, ci) == IsPartAdded(events[i]) /\ events[i].content_index = ci

\* the delta event at position p comes after its channel's content-part-added,
\* and right after it if it is the channel's first delta
DeltaAfterOpening(P(_), p) ==
    /\ \E i \in 1..(p - 1) : OpensChannel(i, events[p].content_index)
    /\ p = FirstPosition(P) => OpensChannel(p - 1, events[p].content_index)

RECURSIVE CallTriples(_)
CallTriples(n) ==
    IF n = 0 THEN <<>>
    ELSE CallTriples(n - 1) \o <<"call_added", "call_arguments", "call_done">>

\* the kinds of the events finalization is due for the consumed chunks
FinalKinds ==
    (IF TextSeen THEN <<"text_part_done">> ELSE <<>>)
    \o (IF RefusalSeen THEN <<"refusal_part_done">> ELSE <<>>)
    \o CallTriples(Len(CallOrder))
    \o (IF TextSeen \/ RefusalSeen THEN <<"message_done">> ELSE <<>>)
    \o <<"completed">>

\* C16: when the stream has been consumed to its end, the events after those
\* of the translation loop are, in this order: the text channel's
\* content-part-done (if opened), the refusal channel's (if opened), whichever
\* of the two holds slot 0; per tool call the three events item-added,
\* arguments-delta, item-done of that one call; the message item-done (if a
\* channel was opened); completed.
C16_FinalizationOrder ==
    Done =>
        /\ Kinds = LoopKinds(consumed, Len(consumed)) \o FinalKinds
        /\ \A j \in 1..Len(CallOrder) :
              ToolCallEvents[3 * j - 2].item = ToolCallEvents[3 * j].item

\* refusal holds slot 0 and text slot 1, two tool calls
C16_Witness ==
    /\ Done
    /\ RefusalOpenedFirst
    /\ Count(IsTextPartDone) = 1
    /\ events[FirstPosition(IsTextPartDone)].content_index = 1
    /\ FirstPosition(IsTextPartDone) < FirstPosition(IsRefusalPartDone)
    /\ Len(CallOrder) = 2
    /\ FirstPosition(IsMessageItemDone) > FirstPosition(IsCallItemDone)

(***************************************************************************)
(* C17                                                                     *)
(***************************************************************************)
ChannelsOpened == (IF TextSeen THEN 1 ELSE 0) + (IF RefusalSeen THEN 1 ELSE 0)

\* C17: every tool-call event yielded, of whichever call and whichever of its
\* three events, carries as output index the number of message channels the
\* stream opened (0, 1 or 2): one index for all calls, not one per call.
C17_OneToolCallIndex ==
    \A i \in Positions(IsToolCallEvent) : events[i].output_index = ChannelsOpened

\* two tool calls after both channels: six events, all with output index 2
C17_Witness ==
    /\ Done
    /\ ChannelsOpened = 2
    /\ Len(ToolCallEvents) = 6
    /\ ToolCallEvents[1].output_index = 2
    /\ ToolCallEvents[6].output_index = 2

(***************************************************************************)
(* C18                                                                     *)
(***************************************************************************)
\* the usage field of a chunk as the handler reads it: None when the chunk
\* has no such attribute
UsageField(c) == IF c.has_usage THEN c.usage ELSE <<>>

LastChunk == consumed[Len(consumed)]

C18_CapturedIsLast ==
    /\ (consumed # <<>> /\ pc \notin {"started", "usage", "closed"})
          => usage = UsageField(LastChunk)
    /\ consumed = <<>> => usage = <<>>
    /\ (Done /\ consumed # <<>>) =>
          IF UsageField(LastChunk) = <<>>
          THEN CompletedUsage = <<>>
          ELSE /\ CompletedUsage # <<>>
               /\ CompletedUsage[1].total_tokens = LastChunk.usage[1].total_tokens

\* a chunk without a first-choice delta yields nothing and accumulates
\* nothing, and its usage field is captured all the same
C18_NoDeltaStep ==
    (pc = "usage" /\ ~HasDelta(chunk) /\ pc' # "closed") =>
        /\ pc' = "for"
        /\ usage' = UsageField(chunk)
        /\ UNCHANGED <<events, state>>

\* C18: once a chunk's usage has been captured, the captured usage is that
\* chunk's usage field (None if the field is empty or missing) whatever the
\* chunks before carried, so the usage of the completed response is that of
\* the last chunk alone; a chunk without a first-choice delta yields no event
\* and still overwrites the captured usage.
C18_UsageLastWriterWins == [](C18_CapturedIsLast) /\ [][C18_NoDeltaStep]_vars

\* a usage summary cleared by a later chunk that has no delta and an empty
\* usage field
C18_Witness ==
    /\ pc = "for"
    /\ Len(consumed) = 2
    /\ ChunkHasUsage(consumed[1])
    /\ ~HasDelta(consumed[2])
    /\ consumed[2].has_usage
    /\ usage = <<>>

(***************************************************************************)
(* C19                                                                     *)
(***************************************************************************)
IsReasoningBlock(b) == b.is_dict /\ b.thinking \notin {None, ""}

\* the reasoning text of a delta: the direct field, or else the first
\* non-empty entry of the block list
ReasoningOf(d) ==
    IF d.reasoning_content \notin {None, ""} THEN d.reasoning_content
    ELSE LET first == CHOOSE i \in 1..Len(d.thinking_blocks) :
                         /\ IsReasoningBlock(d.thinking_blocks[i])
                         /\ \A j \in 1..(i - 1) : ~IsReasoningBlock(d.thinking_blocks[j])
         IN  d.thinking_blocks[first].thinking

\* the reasoning texts of the first n chunks of cs, in order
RECURSIVE ReasoningTexts(_, _)
ReasoningTexts(cs, n) ==
    IF n = 0 THEN <<>>
    ELSE ReasoningTexts(cs, n - 1)
         \o (IF ChunkHasReasoning(cs[n]) THEN <<ReasoningOf(DeltaOf(cs[n]))>> ELSE <<>>)

ThinkingEvents == SelectSeq(events, IsThinkingDelta)

ThinkingDeltas == [i \in 1..Len(ThinkingEvents) |-> ThinkingEvents[i].delta]

ReasoningOnly(c) ==
    ChunkHasReasoning(c) /\ ~ChunkHasText(c) /\ ~ChunkHasRefusal(c)
        /\ ~ChunkHasToolCalls(c)

C19_ReasoningEvents ==
    /\ Translated =>
          ThinkingDeltas = ReasoningTexts(consumed, Len(consumed))
    /\ pc = "for" => Kinds = LoopKinds(consumed, Len(consumed))
    /\ (Done /\ consumed # <<>>
             /\ \A i \in 1..Len(consumed) : ReasoningOnly(consumed[i])) =>
          /\ Kinds = <<"created">> \o [i \in 1..Len(consumed) |-> "thinking"]
                        \o <<"completed">>
          /\ LastEvent.response.output = <<>>
          /\ state.text_content_index_and_output = <<>>
          /\ state.refusal_content_index_and_output = <<>>

\* the block that handles reasoning leaves the accumulation state alone
C19_StateUntouched ==
    (pc = "thinking" /\ pc' # "closed") => UNCHANGED <<state, usage>>

\* C19: each chunk whose delta carries non-empty reasoning yields exactly one
\* reasoning-delta event, carrying the direct field if it is non-empty and
\* else the first non-empty entry of the block list, ahead of the chunk's
\* text and refusal events; the step that yields it changes nothing of the
\* accumulation state; and a stream of reasoning alone yields created, the
\* reasoning deltas and completed, with no message item in the response.
C19_Reasoning == [](C19_ReasoningEvents) /\ [][C19_StateUntouched]_vars

\* reasoning from the block list, then a chunk with the direct field, a
\* block list and text
C19_Witness ==
    /\ Done
    /\ ThinkingDeltas = <<"y", "x">>
    /\ ChunkHasText(consumed[2])
    /\ DeltaOf(consumed[2]).thinking_blocks # <<>>

====
